---- MODULE Spec2Model ----
(***************************************************************************)
(* Model of the pallet declaration validators                              *)
(*   frame/support/procedural/src/pallet/parse/call.rs   (CallDef)         *)
(*   frame/support/procedural/src/pallet/parse/error.rs  (ErrorDef)        *)
(*                                                                         *)
(* A syntax fragment is a record: Option<T> is a sequence of length <= 1,  *)
(* a Vec<T> or a Punctuated<T, _> is a sequence, an attribute is a record  *)
(* of its path and of the tokens that follow the path inside the brackets. *)
(* syn::Result<T> is a record [ok, span, msg, val].                        *)
(***************************************************************************)
EXTENDS Naturals, Sequences, FiniteSets

VARIABLES pc, validator, input, index, result

vars == <<pc, validator, input, index, result>>

(***************************************************************************)
(* Bounds of the enumerated fragments.                                     *)
(***************************************************************************)
MaxMembers == 2
MaxAttrs == 2
MaxInputs == 3
MaxVariants == 2
MaxIndex == 1

(***************************************************************************)
(* Generic helpers.                                                        *)
(***************************************************************************)
None == <<>>
Some(x) == <<x>>

\* The sequences over S of length at most n.
BSeq(S, n) == UNION {[1..k -> S] : k \in 0..n}

Ok(v) == [ok |-> TRUE, span |-> "", msg |-> "", val |-> v]
Err(span, msg) == [ok |-> FALSE, span |-> span, msg |-> msg, val |-> None]

(***************************************************************************)
(* Attributes: #[path tokens]. The path is its sequence of segments.       *)
(***************************************************************************)
Attr(path, tokens) == [path |-> path, tokens |-> tokens]

WeightA == Attr(<<"pallet", "weight">>, <<"=", "a">>)
WeightB == Attr(<<"pallet", "weight">>, <<"=", "b">>)
WeightBad == Attr(<<"pallet", "weight">>, <<>>)
Compact == Attr(<<"pallet", "compact">>, <<>>)
CompactBad == Attr(<<"pallet", "compact">>, <<"x">>)
DocD == Attr(<<"doc">>, <<"=", "d">>)
Inline == Attr(<<"inline">>, <<>>)

\* The expressions a weight payload can be.
Exprs == {"a", "b"}

(***************************************************************************)
(* Diagnostics of call.rs and error.rs, without their backquoted examples.  *)
(***************************************************************************)
MsgExpectImpl == "Invalid pallet::call, expect item impl"
MsgExpectCall == "Invalid pallet::call, expect Call ident"
MsgNoOrigin == "Invalid pallet::call, must have at least origin arg"
MsgReturnType == "Invalid pallet::call, require return type DispatchResultWithPostInfo"
MsgRequireWeight == "Invalid pallet::call, require weight attribute"
MsgTooManyWeight == "Invalid pallet::call, to many weight attribute given"
MsgArgTooManyAttrs == "Invalid pallet::call, argument has too many attributes"
MsgArgIdent == "Invalid pallet::call, argumen must be ident"
MsgOnlyMethod == "Invalid pallet::call, only method accepted"
MsgExpectEnum == "Invalid pallet::error, expect item enum"
MsgMustBePublic == "Invalid pallet::error, Error must be public"
MsgWhereClause == "Invalid pallet::error, unexpected where clause"
MsgFields == "Invalid pallet::error, unexpected fields, must be Unit"
MsgDiscriminant == "Invalid pallet::error, unexpected discriminant, discriminant are not supported"

\* The messages of syn for a token stream that does not parse.
MsgExpectedCall == "expected Call"
MsgExpectedResult == "expected DispatchResultWithPostInfo"
MsgExpectedError == "expected Error"
MsgExpectedWeight == "expected weight"
MsgExpectedCompact == "expected compact"
MsgExpectedEq == "expected ="
MsgExpectedExpr == "expected expression"
MsgUnexpectedToken == "unexpected token"
MsgExpected(kw) ==
    CASE kw = "Call" -> MsgExpectedCall
      [] kw = "DispatchResultWithPostInfo" -> MsgExpectedResult
      [] kw = "Error" -> MsgExpectedError

(***************************************************************************)
(* The collaborators of the two validators that live in the parent module  *)
(* (super:: / helper::).                                                   *)
(***************************************************************************)
\* An instance-usage token: whether the instance parameter is used, and the
\* span of the construct it was computed from.
InstanceUsage(has_instance, span) == [has_instance |-> has_instance, span |-> span]

MsgGenerics == "Invalid generics"
MsgModuleUsage == "Invalid module usage"
MsgOrigin == "Invalid origin argument"

check_impl_generics(generics) ==
    CASE generics.params = "<T: Trait>" -> Ok(InstanceUsage(FALSE, "item.impl_token"))
      [] generics.params = "<T: Trait<I>, I: Instance>" -> Ok(InstanceUsage(TRUE, "item.impl_token"))
      [] OTHER -> Err("item.impl_token", MsgGenerics)

check_module_usage(self_ty) ==
    CASE self_ty = "Module<T>" -> Ok(InstanceUsage(FALSE, "item.self_ty"))
      [] self_ty = "Module<T, I>" -> Ok(InstanceUsage(TRUE, "item.self_ty"))
      [] OTHER -> Err("item.self_ty", MsgModuleUsage)

check_type_def_generics(generics) ==
    CASE generics.params = "<T>" -> Ok(InstanceUsage(FALSE, "item"))
      [] generics.params = "<T, I>" -> Ok(InstanceUsage(TRUE, "item"))
      [] OTHER -> Err("item", MsgGenerics)

check_dispatchable_first_arg(arg) ==
    IF arg.kind = "Typed" /\ arg.ty = "OriginFor<T>"
    THEN Ok(None)
    ELSE Err("arg", MsgOrigin)

\* The string literals of the documentation attributes, in order.
RECURSIVE get_doc_literals(_)
get_doc_literals(attrs) ==
    IF attrs = <<>> THEN <<>>
    ELSE IF Head(attrs).path = <<"doc">> /\ Len(Head(attrs).tokens) = 2
         THEN <<Head(attrs).tokens[2]>> \o get_doc_literals(Tail(attrs))
         ELSE get_doc_literals(Tail(attrs))

(***************************************************************************)
(* call.rs: the grammars of the two marker attributes.                     *)
(***************************************************************************)
\* syn::custom_keyword!: the tokens must be exactly the keyword.
ParseKeyword(kw, tokens, span) ==
    IF tokens = kw THEN Ok(kw) ELSE Err(span, MsgExpected(kw))

\* #[pallet::weight = expr]
FunctionAttr_parse(attr) ==
    IF attr.path # <<"pallet", "weight">> THEN Err("attr", MsgExpectedWeight)
    ELSE IF Len(attr.tokens) = 0 \/ attr.tokens[1] # "=" THEN Err("attr", MsgExpectedEq)
    ELSE IF Len(attr.tokens) # 2 \/ attr.tokens[2] \notin Exprs THEN Err("attr", MsgExpectedExpr)
    ELSE Ok([weight |-> attr.tokens[2]])

\* #[pallet::compact]
ArgAttrIsCompact_parse(attr) ==
    IF attr.path # <<"pallet", "compact">> THEN Err("attr", MsgExpectedCompact)
    ELSE IF attr.tokens # <<>> THEN Err("attr", MsgUnexpectedToken)
    ELSE Ok("ArgAttrIsCompact")

\* The marker path and the parser of a grammar type.
MarkerPath(G) ==
    IF G = "FunctionAttr" THEN <<"pallet", "weight">> ELSE <<"pallet", "compact">>

ParseAs(G, attr) ==
    IF G = "FunctionAttr" THEN FunctionAttr_parse(attr) ELSE ArgAttrIsCompact_parse(attr)

\* The Attribute Extractor: the attributes whose path is the marker of G are
\* parsed as G and removed, in order; the first one that does not parse ends
\* the scan with its diagnostic.
RECURSIVE TakeScan(_, _, _, _)
TakeScan(attrs, G, kept, parsed) ==
    IF attrs = <<>> THEN Ok([attrs |-> kept, parsed |-> parsed])
    ELSE IF Head(attrs).path = MarkerPath(G)
         THEN LET p == ParseAs(G, Head(attrs)) IN
              IF p.ok THEN TakeScan(Tail(attrs), G, kept, Append(parsed, p.val))
              ELSE Err(p.span, p.msg)
         ELSE TakeScan(Tail(attrs), G, Append(kept, Head(attrs)), parsed)

take_item_attrs(attrs, G) == TakeScan(attrs, G, <<>>, <<>>)

(***************************************************************************)
(* call.rs: CallDef::try_from, piece by piece.                             *)
(***************************************************************************)
\* The node must be an implementation block.
ExpectImpl(item) ==
    IF item.kind = "Impl" THEN Ok(item) ELSE Err("item", MsgExpectImpl)

\* Faulty variant: the two tokens pushed in the other order.
CollectInstances_swapped(item) ==
    LET g == check_impl_generics(item.generics) IN
    IF ~g.ok THEN g
    ELSE LET s == check_module_usage(item.self_ty) IN
         IF ~s.ok THEN s
         ELSE Ok(<<s.val, g.val>>)

\* instances: the token of the generics, then the token of the self type.
CollectInstances(item) ==
    LET g == check_impl_generics(item.generics) IN
    IF ~g.ok THEN g
    ELSE LET s == check_module_usage(item.self_ty) IN
         IF ~s.ok THEN s
         ELSE Ok(<<g.val, s.val>>)

\* Faulty variant: a missing trait reference reported with the diagnostic of the node kind.
TakeTrait_msg(item) ==
    IF item.trait_ = None THEN Err("item", MsgExpectImpl)
    ELSE Ok([item |-> [item EXCEPT !.trait_ = None], path |-> item.trait_[1]])

\* item.trait_.take(): the trait reference leaves the item.
TakeTrait(item) ==
    IF item.trait_ = None THEN Err("item", MsgExpectCall)
    ELSE Ok([item |-> [item EXCEPT !.trait_ = None], path |-> item.trait_[1]])

\* Faulty variant: the return type checked before the origin predicate.
CheckSignature_reordered(method) ==
    IF Len(method.sig.inputs) = 0 THEN Err("method.sig.inputs", MsgNoOrigin)
    ELSE IF method.sig.output = None THEN Err("method.sig", MsgReturnType)
    ELSE LET r == ParseKeyword("DispatchResultWithPostInfo", method.sig.output[1], "type_") IN
         IF ~r.ok THEN r
         ELSE check_dispatchable_first_arg(method.sig.inputs[1])

\* At least one parameter, the origin predicate on the first, the return type.
CheckSignature(method) ==
    IF Len(method.sig.inputs) = 0 THEN Err("method.sig.inputs", MsgNoOrigin)
    ELSE LET o == check_dispatchable_first_arg(method.sig.inputs[1]) IN
         IF ~o.ok THEN o
         ELSE IF method.sig.output = None THEN Err("method.sig", MsgReturnType)
         ELSE ParseKeyword("DispatchResultWithPostInfo", method.sig.output[1], "type_")

\* Faulty variant: only a missing weight marker is rejected.
PopWeight_atleast(call_var_attrs) ==
    IF Len(call_var_attrs) = 0 THEN Err("method.sig", MsgRequireWeight)
    ELSE Ok(call_var_attrs[Len(call_var_attrs)].weight)

\* Exactly one weight marker; pop() takes the last of the parsed markers.
PopWeight(call_var_attrs) ==
    IF Len(call_var_attrs) # 1
    THEN Err("method.sig", IF Len(call_var_attrs) = 0 THEN MsgRequireWeight
                                                       ELSE MsgTooManyWeight)
    ELSE Ok(call_var_attrs[Len(call_var_attrs)].weight)

\* Faulty variant: the weight markers are parsed but stay on the method.
TakeWeight_kept(method) ==
    LET t == take_item_attrs(method.attrs, "FunctionAttr") IN
    IF ~t.ok THEN t
    ELSE LET w == PopWeight(t.val.parsed) IN
         IF ~w.ok THEN w
         ELSE Ok([attrs |-> method.attrs, weight |-> w.val])

\* The weight markers leave the method's attributes.
TakeWeight(method) ==
    LET t == take_item_attrs(method.attrs, "FunctionAttr") IN
    IF ~t.ok THEN t
    ELSE LET w == PopWeight(t.val.parsed) IN
         IF ~w.ok THEN w
         ELSE Ok([attrs |-> t.val.attrs, weight |-> w.val])

\* One parameter after the origin: its compact markers leave its attributes.
\* Only the first parameter of a method can be a receiver, so arg is typed
\* (the other branch is unreachable!()).
TakeArg(arg) ==
    LET t == take_item_attrs(arg.attrs, "ArgAttrIsCompact") IN
    IF ~t.ok THEN t
    ELSE IF Len(t.val.parsed) > 1 THEN Err("arg", MsgArgTooManyAttrs)
    ELSE IF arg.pat.kind # "Ident" THEN Err("arg.pat", MsgArgIdent)
    ELSE Ok([arg |-> [arg EXCEPT !.attrs = t.val.attrs],
             entry |-> <<t.val.parsed # <<>>, arg.pat.ident, arg.ty>>])

RECURSIVE ArgsLoop(_, _, _)
ArgsLoop(inputs, k, args) ==
    IF k > Len(inputs) THEN Ok([inputs |-> inputs, args |-> args])
    ELSE LET a == TakeArg(inputs[k]) IN
         IF ~a.ok THEN a
         ELSE ArgsLoop([inputs EXCEPT ![k] = a.val.arg], k + 1, Append(args, a.val.entry))

\* Faulty variant: the origin parameter is not skipped.
ScanArgs_all(method) == ArgsLoop(method.sig.inputs, 1, <<>>)

\* method.sig.inputs.iter_mut().skip(1)
ScanArgs(method) == ArgsLoop(method.sig.inputs, 2, <<>>)

\* One method of the block.
ProcessMethod(method) ==
    LET c == CheckSignature(method) IN
    IF ~c.ok THEN c
    ELSE LET w == TakeWeight(method) IN
         IF ~w.ok THEN w
         ELSE LET a == ScanArgs(method) IN
              IF ~a.ok THEN a
              ELSE Ok([item |-> [method EXCEPT !.attrs = w.val.attrs,
                                               !.sig.inputs = a.val.inputs],
                       variant |-> [fn_ |-> method.sig.ident,
                                    weight |-> w.val.weight,
                                    args |-> a.val.args,
                                    docs |-> get_doc_literals(w.val.attrs)]])

\* Faulty variant: a member that is no method reported with the diagnostic of a parameter.
ProcessImplItem_msg(impl_item) ==
    IF impl_item.kind = "Method" THEN ProcessMethod(impl_item)
    ELSE Err("impl_item", MsgArgIdent)

\* One member of the block: only a method is accepted.
ProcessImplItem(impl_item) ==
    IF impl_item.kind = "Method" THEN ProcessMethod(impl_item)
    ELSE Err("impl_item", MsgOnlyMethod)

\* Faulty variant: the new entry put in front.
PushMethod_front(methods, variant) == <<variant>> \o methods

\* methods.push(CallVariantDef { .. })
PushMethod(methods, variant) == Append(methods, variant)

RECURSIVE ItemsLoop(_, _, _)
ItemsLoop(items, i, methods) ==
    IF i > Len(items) THEN Ok([items |-> items, methods |-> methods])
    ELSE LET m == ProcessImplItem(items[i]) IN
         IF ~m.ok THEN m
         ELSE ItemsLoop([items EXCEPT ![i] = m.val.item], i + 1,
                        PushMethod(methods, m.val.variant))

CallDef_try_from(item) ==
    LET e == ExpectImpl(item) IN
    IF ~e.ok THEN e
    ELSE LET ins == CollectInstances(item) IN
         IF ~ins.ok THEN ins
         ELSE LET t == TakeTrait(item) IN
              IF ~t.ok THEN t
              ELSE LET call == ParseKeyword("Call", t.val.path, "call") IN
                   IF ~call.ok THEN call
                   ELSE LET l == ItemsLoop(t.val.item.items, 1, <<>>) IN
                        IF ~l.ok THEN l
                        ELSE Ok([call |-> call.val,
                                 instances |-> ins.val,
                                 item |-> [t.val.item EXCEPT !.items = l.val.items],
                                 methods |-> l.val.methods])

(***************************************************************************)
(* error.rs: ErrorDef::try_from.                                           *)
(***************************************************************************)
ExpectEnum(item) ==
    IF item.kind = "Enum" THEN Ok(item) ELSE Err("item", MsgExpectEnum)

\* Faulty variant: the visibility is not checked.
CheckVisibility_skipped(item) == Ok(None)

CheckVisibility(item) ==
    IF item.vis # "pub" THEN Err("item", MsgMustBePublic) ELSE Ok(None)

CheckWhereClause(item) ==
    IF item.generics.where_clause # None THEN Err("where_clause", MsgWhereClause)
    ELSE Ok(None)

\* Faulty variant: the discriminant is not checked.
ParseVariant_fields(variant) ==
    IF variant.fields # "Unit" THEN Err("variant.fields", MsgFields)
    ELSE Ok(<<variant.ident, get_doc_literals(variant.attrs)>>)

\* One variant: no field, no discriminant.
ParseVariant(variant) ==
    IF variant.fields # "Unit" THEN Err("variant.fields", MsgFields)
    ELSE IF variant.discriminant # None THEN Err("variant.discriminant", MsgDiscriminant)
    ELSE Ok(<<variant.ident, get_doc_literals(variant.attrs)>>)

\* .map(..).collect::<Result<_, _>>(): the first failing variant ends it.
RECURSIVE CollectVariants(_, _)
CollectVariants(variants, acc) ==
    IF variants = <<>> THEN Ok(acc)
    ELSE LET v == ParseVariant(Head(variants)) IN
         IF ~v.ok THEN v
         ELSE CollectVariants(Tail(variants), Append(acc, v.val))

ErrorDef_try_from(idx, item) ==
    LET k == ExpectEnum(item) IN
    IF ~k.ok THEN k
    ELSE LET p == CheckVisibility(item) IN
         IF ~p.ok THEN p
         ELSE LET g == check_type_def_generics(item.generics) IN
              IF ~g.ok THEN g
              ELSE LET w == CheckWhereClause(item) IN
                   IF ~w.ok THEN w
                   ELSE LET e == ParseKeyword("Error", item.ident, "item.ident") IN
                        IF ~e.ok THEN e
                        ELSE LET v == CollectVariants(item.variants, <<>>) IN
                             IF ~v.ok THEN v
                             ELSE Ok([index |-> idx,
                                      variants |-> v.val,
                                      instances |-> <<g.val>>,
                                      error |-> e.val])

(***************************************************************************)
(* The fragments the scanner hands to the validators.                      *)
(***************************************************************************)
Typed(attrs, pat, ty) == [kind |-> "Typed", attrs |-> attrs, pat |-> pat, ty |-> ty]
Receiver == [kind |-> "Receiver"]
PatIdent(x) == [kind |-> "Ident", ident |-> x]
PatTuple == [kind |-> "Tuple"]

Method(attrs, ident, inputs, output) ==
    [kind |-> "Method", attrs |-> attrs,
     sig |-> [ident |-> ident, inputs |-> inputs, output |-> output]]
ConstItem == [kind |-> "Const", ident |-> "C"]
TypeItem == [kind |-> "Type", ident |-> "X"]

Generics(params, where_clause) == [params |-> params, where_clause |-> where_clause]

ItemImpl(params, self_ty, trait_, items) ==
    [kind |-> "Impl", generics |-> Generics(params, None), self_ty |-> self_ty,
     trait_ |-> trait_, items |-> items]

ImplGenerics == {"<T: Trait>", "<T: Trait<I>, I: Instance>", "<U>"}
SelfTypes == {"Module<T>", "Module<T, I>", "Vec<T>"}
Traits == {None, Some("Call"), Some("Other")}
Outputs == {None, Some("DispatchResultWithPostInfo"), Some("DispatchResult")}
ResultType == Some("DispatchResultWithPostInfo")

Origin == Typed(<<>>, PatIdent("origin"), "OriginFor<T>")
FirstArgs == {Origin,
              Typed(<<Compact>>, PatIdent("origin"), "OriginFor<T>"),
              Typed(<<>>, PatIdent("origin"), "u32"),
              Receiver}

\* Parameters after the first: a few plain ones, and every one within the bounds.
PlainArgs == {Typed(<<>>, PatIdent("a"), "Balance"),
              Typed(<<Compact>>, PatIdent("b"), "u32"),
              Typed(<<>>, PatTuple, "Balance"),
              Typed(<<Compact, Compact>>, PatIdent("a"), "Balance")}
ArgAttrKinds == {Compact, CompactBad, Inline}
RichArgs == {Typed(attrs, pat, ty) : attrs \in BSeq(ArgAttrKinds, MaxAttrs),
                                     pat \in {PatIdent("a"), PatIdent("b"), PatTuple},
                                     ty \in {"Balance", "u32"}}

MethodAttrKinds == {WeightA, WeightB, WeightBad, DocD}

\* Parameter lists: none, or a first parameter followed by plain ones.
PlainInputs ==
    {<<>>} \cup {<<f>> \o rest : f \in FirstArgs, rest \in BSeq(PlainArgs, MaxInputs - 1)}

\* Parameter lists with one parameter of RichArgs after the origin.
RichInputs ==
    {<<Origin, r>> \o rest : r \in RichArgs, rest \in BSeq(PlainArgs, MaxInputs - 2)}
    \cup {<<Origin>> \o rest \o <<r>> : r \in RichArgs, rest \in BSeq(PlainArgs, MaxInputs - 2)}

\* Members: a few plain ones, and the methods within the bounds.
MethodG ==
    Method(<<DocD, WeightB>>, "g",
           <<Origin, Typed(<<Compact>>, PatIdent("a"), "Balance"),
             Typed(<<Inline>>, PatIdent("b"), "u32")>>, ResultType)
PlainMembers ==
    {Method(<<WeightA>>, "f", <<Origin>>, ResultType),
     MethodG,
     Method(<<>>, "h", <<Origin>>, ResultType),
     Method(<<WeightA>>, "k", <<Origin, Typed(<<>>, PatTuple, "Balance")>>, ResultType),
     ConstItem,
     TypeItem}
Variant(ident, attrs, fields, discriminant) ==
    [ident |-> ident, attrs |-> attrs, fields |-> fields, discriminant |-> discriminant]
Variants ==
    {Variant(v[1], v[2], fields, discriminant) :
        v \in {<<"InsufficientBalance", <<DocD>>>>, <<"Overflow", <<>>>>},
        fields \in {"Unit", "Unnamed"},
        discriminant \in {None, Some("1")}}

ItemEnum(vis, ident, params, where_clause, variants) ==
    [kind |-> "Enum", vis |-> vis, ident |-> ident,
     generics |-> Generics(params, where_clause),
     variants |-> variants]
Visibilities == {"pub", "inherited"}
EnumIdents == {"Error", "MyError"}
EnumParams == {"<T>", "<T, I>", "<U>"}
WhereClauses == {None, Some("where T: Trait")}

\* Items of another kind.
OtherItems == {[kind |-> "Fn"], [kind |-> "Struct"]}
SampleEnum == ItemEnum("pub", "Error", "<T>", None, <<>>)
SampleImpl == ItemImpl("<T: Trait>", "Module<T>", Some("Call"), <<>>)

(***************************************************************************)
(* The state machine: the scanner routes one fragment to one validator,    *)
(* which returns a record or a diagnostic.                                 *)
(***************************************************************************)
NoResult == [ok |-> FALSE, span |-> "", msg |-> "", val |-> None]

\* The fragment is routed to the call validator.
ToCall(item) ==
    /\ pc = "idle"
    /\ validator = "call"
    /\ input = item
    /\ index = 0
    /\ result = NoResult

\* The fragment is routed to the error validator as the idx-th declaration.
ToError(idx, item) ==
    /\ pc = "idle"
    /\ validator = "error"
    /\ input = item
    /\ index = idx
    /\ result = NoResult

\* An implementation block of any header over plain members.
InitBlock ==
    \E g \in ImplGenerics, s \in SelfTypes, t \in Traits,
       items \in BSeq(PlainMembers, MaxMembers) :
          ToCall(ItemImpl(g, s, t, items))

\* An accepted header over one method, alone, after an accepted method or
\* before a constant: any attributes, plain parameters.
InitMethod ==
    \E attrs \in BSeq(MethodAttrKinds, MaxAttrs), inputs \in PlainInputs,
       output \in Outputs, before \in {<<>>, <<MethodG>>},
       rest \in {<<>>, <<ConstItem>>} :
          ToCall(ItemImpl("<T: Trait>", "Module<T>", Some("Call"),
                          before \o <<Method(attrs, "f", inputs, output)>> \o rest))

\* An accepted header over one method, alone or after an accepted method,
\* with one parameter of RichArgs.
InitArg ==
    \E inputs \in RichInputs, before \in {<<>>, <<MethodG>>} :
          ToCall(ItemImpl("<T: Trait>", "Module<T>", Some("Call"),
                          before \o <<Method(<<WeightA>>, "f", inputs, ResultType)>>))

InitEnum ==
    \E idx \in 0..MaxIndex, vis \in Visibilities, ident \in EnumIdents,
       params \in EnumParams, where_clause \in WhereClauses,
       variants \in BSeq(Variants, MaxVariants) :
          ToError(idx, ItemEnum(vis, ident, params, where_clause, variants))

\* An item of another kind.
InitOther ==
    \/ \E item \in OtherItems \cup {SampleEnum} : ToCall(item)
    \/ \E idx \in 0..MaxIndex, item \in OtherItems \cup {SampleImpl} : ToError(idx, item)

Init == InitBlock \/ InitMethod \/ InitArg \/ InitEnum \/ InitOther

CallTryFrom ==
    /\ pc = "idle"
    /\ validator = "call"
    /\ result' = CallDef_try_from(input)
    /\ pc' = "done"
    /\ UNCHANGED <<validator, input, index>>

ErrorTryFrom ==
    /\ pc = "idle"
    /\ validator = "error"
    /\ result' = ErrorDef_try_from(index, input)
    /\ pc' = "done"
    /\ UNCHANGED <<validator, input, index>>

Next == CallTryFrom \/ ErrorTryFrom

Spec == Init /\ [][Next]_vars

(***************************************************************************)
(* Vocabulary of the properties, stated on the input fragment alone.       *)
(***************************************************************************)
CallDone == pc = "done" /\ validator = "call"
ErrorDone == pc = "done" /\ validator = "error"

IsWeightMarker(a) == a.path = <<"pallet", "weight">>
IsCompactMarker(a) == a.path = <<"pallet", "compact">>
NotWeightMarker(a) == ~IsWeightMarker(a)
NotCompactMarker(a) == ~IsCompactMarker(a)
WeightMarkers(attrs) == SelectSeq(attrs, IsWeightMarker)
CompactMarkers(attrs) == SelectSeq(attrs, IsCompactMarker)

WellFormedWeight(a) == a.tokens \in {<<"=", e>> : e \in Exprs}
WellFormedCompact(a) == a.tokens = <<>>
WeightsParse(attrs) ==
    \A j \in 1..Len(attrs) : IsWeightMarker(attrs[j]) => WellFormedWeight(attrs[j])
CompactsParse(attrs) ==
    \A j \in 1..Len(attrs) : IsCompactMarker(attrs[j]) => WellFormedCompact(attrs[j])

\* The checks before the members all pass.
HeaderAccepted(item) ==
    /\ item.kind = "Impl"
    /\ check_impl_generics(item.generics).ok
    /\ check_module_usage(item.self_ty).ok
    /\ item.trait_ = Some("Call")

\* The method's signature brings it to the weight step.
ReachesWeight(m) ==
    /\ m.kind = "Method"
    /\ Len(m.sig.inputs) >= 1
    /\ check_dispatchable_first_arg(m.sig.inputs[1]).ok
    /\ m.sig.output = Some("DispatchResultWithPostInfo")

ArgAccepted(arg) ==
    /\ CompactsParse(arg.attrs)
    /\ Len(CompactMarkers(arg.attrs)) <= 1
    /\ arg.pat.kind = "Ident"

MethodAccepted(m) ==
    /\ ReachesWeight(m)
    /\ WeightsParse(m.attrs)
    /\ Len(WeightMarkers(m.attrs)) = 1
    /\ \A k \in 2..Len(m.sig.inputs) : ArgAccepted(m.sig.inputs[k])

\* Every member before the i-th is an accepted method.
MembersBeforeAccepted(item, i) ==
    \A j \in 1..(i - 1) : MethodAccepted(item.items[j])

(***************************************************************************)
(* C1                                                                      *)
(***************************************************************************)
\* C1, as stated: an implementation block without a trait reference fails
\* with the "expect Call ident" diagnostic, whatever its generics, self type
\* and members are.
C1_Original ==
    (CallDone /\ input.kind = "Impl" /\ input.trait_ = None)
        => (~result.ok /\ result.msg = MsgExpectCall)

\* C1, amended: an implementation block without a trait reference never yields
\* a CallDef; the diagnostic is "expect Call ident" when the oracle accepts the
\* generics and the self type, and otherwise the diagnostic of the first of the
\* two oracle calls that fails.
C1_NoTraitReference ==
    (CallDone /\ input.kind = "Impl" /\ input.trait_ = None) =>
        LET g == check_impl_generics(input.generics)
            s == check_module_usage(input.self_ty) IN
        /\ ~result.ok
        /\ (g.ok /\ s.ok) => result.msg = MsgExpectCall
        /\ ~g.ok => (result.msg = g.msg /\ result.span = g.span)
        /\ (g.ok /\ ~s.ok) => (result.msg = s.msg /\ result.span = s.span)

\* A block without trait reference, with accepted generics and self type and
\* two members of which the first is defective, rejected for the missing trait.
C1_Witness ==
    /\ CallDone /\ input.kind = "Impl" /\ input.trait_ = None
    /\ check_impl_generics(input.generics).ok
    /\ check_module_usage(input.self_ty).ok
    /\ Len(input.items) = 2
    /\ ~MethodAccepted(input.items[1])
    /\ result.msg = MsgExpectCall

(***************************************************************************)
(* C2                                                                      *)
(***************************************************************************)
\* C2: for a method that reaches the weight step, when the extractor returns
\* no weight marker the validation fails with "require weight attribute", when
\* it returns more than one it fails with "to many weight attribute", and a
\* CallVariantDef exists only for exactly one marker, with that marker's
\* expression as its weight.
C2_WeightCardinality ==
    (CallDone /\ HeaderAccepted(input)) =>
        \A i \in 1..Len(input.items) :
            LET m == input.items[i]
                x == take_item_attrs(m.attrs, "FunctionAttr")
                n == Len(x.val.parsed) IN
            (MembersBeforeAccepted(input, i) /\ ReachesWeight(m) /\ x.ok) =>
                /\ n = 0 => (~result.ok /\ result.msg = MsgRequireWeight)
                /\ n > 1 => (~result.ok /\ result.msg = MsgTooManyWeight)
                /\ result.ok =>
                      /\ n = 1
                      /\ result.val.methods[i].weight = WeightMarkers(m.attrs)[1].tokens[2]

\* A method that reaches the weight step with two well-formed weight markers.
C2_Witness ==
    /\ CallDone /\ HeaderAccepted(input)
    /\ Len(input.items) >= 1
    /\ ReachesWeight(input.items[1])
    /\ WeightsParse(input.items[1].attrs)
    /\ Len(WeightMarkers(input.items[1].attrs)) = 2
    /\ result.msg = MsgTooManyWeight

(***************************************************************************)
(* C3                                                                      *)
(***************************************************************************)
\* C3: a returned CallDef has one entry of methods per member, the i-th named
\* after the i-th member; a returned ErrorDef has one entry of variants per
\* variant, the i-th carrying the i-th variant's identifier.
C3_OrderPreserved ==
    /\ (CallDone /\ result.ok) =>
          /\ Len(result.val.methods) = Len(input.items)
          /\ \A i \in 1..Len(input.items) :
                result.val.methods[i].fn_ = input.items[i].sig.ident
    /\ (ErrorDone /\ result.ok) =>
          /\ Len(result.val.variants) = Len(input.variants)
          /\ \A i \in 1..Len(input.variants) :
                result.val.variants[i][1] = input.variants[i].ident

\* A CallDef returned for two methods of different names.
C3_Witness ==
    /\ CallDone /\ result.ok
    /\ Len(input.items) = 2
    /\ input.items[1].sig.ident # input.items[2].sig.ident

(***************************************************************************)
(* C4                                                                      *)
(***************************************************************************)
\* C4: in a returned CallDef, the args of a method are its parameters after
\* the first, in declared order, each as (is_compact, identifier, type), and
\* is_compact holds exactly when the parameter carried one compact marker.
C4_ArgsExcludeOrigin ==
    (CallDone /\ result.ok) =>
        \A i \in 1..Len(input.items) :
            LET inputs == input.items[i].sig.inputs
                args == result.val.methods[i].args IN
            /\ Len(args) = Len(inputs) - 1
            /\ \A k \in 1..Len(args) :
                  args[k] = <<Len(CompactMarkers(inputs[k + 1].attrs)) = 1,
                              inputs[k + 1].pat.ident,
                              inputs[k + 1].ty>>

\* A CallDef returned for a method with two parameters after the origin, one
\* of them compact, the other not.
C4_Witness ==
    /\ CallDone /\ result.ok
    /\ Len(input.items) >= 1
    /\ Len(input.items[1].sig.inputs) = 3
    /\ result.val.methods[1].args[1][1] # result.val.methods[1].args[2][1]

(***************************************************************************)
(* C5                                                                      *)
(***************************************************************************)
VariantAccepted(v) == v.fields = "Unit" /\ v.discriminant = None

EnumHeaderAccepted(item) ==
    /\ item.vis = "pub"
    /\ check_type_def_generics(item.generics).ok
    /\ item.generics.where_clause = None
    /\ item.ident = "Error"

\* C5, as stated: an enumeration with a variant that has a field or a
\* discriminant is rejected, and one whose variants are all unit-shaped
\* without discriminant is accepted.
C5_Original ==
    (ErrorDone /\ input.kind = "Enum") =>
        IF \A i \in 1..Len(input.variants) : VariantAccepted(input.variants[i])
        THEN result.ok
        ELSE ~result.ok

\* C5, amended: an enumeration with a variant that has a field or a
\* discriminant is rejected; one whose variants are all unit-shaped without
\* discriminant is accepted exactly when it is public, its generics are
\* accepted by the oracle, it has no where clause and it is named Error.
C5_VariantShapes ==
    (ErrorDone /\ input.kind = "Enum") =>
        IF \A i \in 1..Len(input.variants) : VariantAccepted(input.variants[i])
        THEN result.ok <=> EnumHeaderAccepted(input)
        ELSE ~result.ok

\* An enumeration with an accepted header whose second variant alone has a
\* discriminant.
C5_Witness ==
    /\ ErrorDone /\ input.kind = "Enum"
    /\ EnumHeaderAccepted(input)
    /\ Len(input.variants) = 2
    /\ VariantAccepted(input.variants[1])
    /\ input.variants[2].fields = "Unit"
    /\ input.variants[2].discriminant # None
    /\ ~result.ok

(***************************************************************************)
(* C6                                                                      *)
(***************************************************************************)
\* C6: an enumeration that is not public is rejected with "Error must be
\* public", whatever its other defects are.
C6_MustBePublic ==
    (ErrorDone /\ input.kind = "Enum" /\ input.vis # "pub")
        => (~result.ok /\ result.msg = MsgMustBePublic)

\* A non-public enumeration that also has unrecognized generics, a where
\* clause, another name and a variant with fields and a discriminant.
C6_Witness ==
    /\ ErrorDone /\ input.kind = "Enum" /\ input.vis # "pub"
    /\ ~check_type_def_generics(input.generics).ok
    /\ input.generics.where_clause # None
    /\ input.ident # "Error"
    /\ Len(input.variants) >= 1
    /\ input.variants[1].fields # "Unit"
    /\ input.variants[1].discriminant # None
    /\ result.msg = MsgMustBePublic

(***************************************************************************)
(* C7                                                                      *)
(***************************************************************************)
StripArg(arg) == [arg EXCEPT !.attrs = SelectSeq(arg.attrs, NotCompactMarker)]
StripInputs(inputs) ==
    [k \in 1..Len(inputs) |-> IF k = 1 THEN inputs[k] ELSE StripArg(inputs[k])]
StripMember(m) ==
    [m EXCEPT !.attrs = SelectSeq(m.attrs, NotWeightMarker),
              !.sig.inputs = StripInputs(m.sig.inputs)]
\* The fragment without the weight markers of its methods and without the
\* compact markers of their parameters after the first.
Stripped(item) ==
    [item EXCEPT !.items = [i \in 1..Len(item.items) |-> StripMember(item.items[i])]]

\* C7, as stated: the item of a returned CallDef is the input fragment with
\* the marker attributes removed and nothing else changed, the trait reference
\* included.
C7_Original ==
    (CallDone /\ result.ok) => result.val.item = Stripped(input)

\* C7, amended: the item of a returned CallDef is the input fragment with the
\* marker attributes removed and the trait reference taken out (none), and
\* nothing else changed.
C7_ItemStripped ==
    (CallDone /\ result.ok) =>
        result.val.item = [Stripped(input) EXCEPT !.trait_ = None]

\* A CallDef returned for a method with a weight marker beside a documentation
\* attribute, and a parameter with a compact marker.
C7_Witness ==
    /\ CallDone /\ result.ok
    /\ \E i \in 1..Len(input.items) :
          /\ Len(input.items[i].attrs) = 2
          /\ Len(result.val.item.items[i].attrs) = 1
          /\ \E k \in 2..Len(input.items[i].sig.inputs) :
                Len(CompactMarkers(input.items[i].sig.inputs[k].attrs)) = 1

(***************************************************************************)
(* C8                                                                      *)
(***************************************************************************)
HasNonMethod(item) == \E i \in 1..Len(item.items) : item.items[i].kind # "Method"
FirstNonMethod(item) ==
    CHOOSE i \in 1..Len(item.items) :
        /\ item.items[i].kind # "Method"
        /\ \A j \in 1..(i - 1) : item.items[j].kind = "Method"

\* C8, as stated: an implementation block with a member that is no method
\* fails with "only method accepted", whatever its other members are.
C8_Original ==
    (CallDone /\ input.kind = "Impl" /\ HasNonMethod(input))
        => (~result.ok /\ result.msg = MsgOnlyMethod)

\* C8, amended: an implementation block with a member that is no method never
\* yields a CallDef; the diagnostic is "only method accepted" exactly when the
\* checks of the header pass and every member before the first non-method is
\* an accepted method.
C8_NonMethodRejected ==
    (CallDone /\ input.kind = "Impl" /\ HasNonMethod(input)) =>
        /\ ~result.ok
        /\ result.msg = MsgOnlyMethod
              <=> (HeaderAccepted(input)
                   /\ MembersBeforeAccepted(input, FirstNonMethod(input)))

\* An accepted method followed by a constant, rejected for the constant.
C8_Witness ==
    /\ CallDone /\ HeaderAccepted(input)
    /\ Len(input.items) = 2
    /\ MethodAccepted(input.items[1])
    /\ input.items[2].kind = "Const"
    /\ result.msg = MsgOnlyMethod

(***************************************************************************)
(* C9                                                                      *)
(***************************************************************************)
\* C9: a returned CallDef holds two instance tokens, the oracle's token for
\* the generics and then its token for the self type; a returned ErrorDef
\* holds the one token of the enum's generics; an oracle call that fails ends
\* the validation with the oracle's diagnostic.
C9_Instances ==
    /\ (CallDone /\ result.ok) =>
          result.val.instances = <<check_impl_generics(input.generics).val,
                                   check_module_usage(input.self_ty).val>>
    /\ (ErrorDone /\ result.ok) =>
          result.val.instances = <<check_type_def_generics(input.generics).val>>
    /\ (CallDone /\ input.kind = "Impl") =>
          LET g == check_impl_generics(input.generics)
              s == check_module_usage(input.self_ty) IN
          /\ ~g.ok => result = g
          /\ (g.ok /\ ~s.ok) => result = s
    /\ (ErrorDone /\ input.kind = "Enum" /\ input.vis = "pub") =>
          LET g == check_type_def_generics(input.generics) IN
          ~g.ok => result = g

\* A CallDef returned for a block whose generics use the instance parameter
\* and whose self type does not.
C9_Witness ==
    /\ CallDone /\ result.ok
    /\ check_impl_generics(input.generics).val.has_instance
    /\ ~check_module_usage(input.self_ty).val.has_instance

(***************************************************************************)
(* C10                                                                     *)
(***************************************************************************)
Check(name, member, arg) == [name |-> name, member |-> member, arg |-> arg]

RECURSIVE ArgsChecks(_, _, _)
ArgsChecks(i, k, n) ==
    IF k > n THEN <<>>
    ELSE <<Check("compact_parse", i, k), Check("compact_count", i, k),
           Check("arg_ident", i, k)>> \o ArgsChecks(i, k + 1, n)

MemberChecks(item, i) ==
    <<Check("is_method", i, 0)>> \o
    IF item.items[i].kind = "Method"
    THEN <<Check("has_origin", i, 0), Check("origin", i, 0), Check("return_type", i, 0),
           Check("weight_parse", i, 0), Check("weight_count", i, 0)>>
         \o ArgsChecks(i, 2, Len(item.items[i].sig.inputs))
    ELSE <<>>

RECURSIVE MembersChecks(_, _)
MembersChecks(item, i) ==
    IF i > Len(item.items) THEN <<>>
    ELSE MemberChecks(item, i) \o MembersChecks(item, i + 1)

\* The checks of CallDef::try_from that apply to a fragment, in their order.
CheckOrder(item) ==
    <<Check("kind", 0, 0)>> \o
    IF item.kind = "Impl"
    THEN <<Check("generics", 0, 0), Check("self_ty", 0, 0), Check("trait", 0, 0),
           Check("trait_name", 0, 0)>> \o MembersChecks(item, 1)
    ELSE <<>>

\* Whether the fragment fails a check, whatever the other checks say.
Fails(item, c) ==
    LET m == item.items[c.member]
        arg == m.sig.inputs[c.arg] IN
    CASE c.name = "kind" -> item.kind # "Impl"
      [] c.name = "generics" -> ~check_impl_generics(item.generics).ok
      [] c.name = "self_ty" -> ~check_module_usage(item.self_ty).ok
      [] c.name = "trait" -> item.trait_ = None
      [] c.name = "trait_name" -> item.trait_ # None /\ item.trait_[1] # "Call"
      [] c.name = "is_method" -> m.kind # "Method"
      [] c.name = "has_origin" -> Len(m.sig.inputs) = 0
      [] c.name = "origin" ->
            Len(m.sig.inputs) > 0 /\ ~check_dispatchable_first_arg(m.sig.inputs[1]).ok
      [] c.name = "return_type" -> m.sig.output # Some("DispatchResultWithPostInfo")
      [] c.name = "weight_parse" -> ~WeightsParse(m.attrs)
      [] c.name = "weight_count" -> Len(WeightMarkers(m.attrs)) # 1
      [] c.name = "compact_parse" -> ~CompactsParse(arg.attrs)
      [] c.name = "compact_count" -> Len(CompactMarkers(arg.attrs)) > 1
      [] c.name = "arg_ident" -> arg.pat.kind # "Ident"

\* The diagnostics a failed check gives.
Diagnostics(item, c) ==
    LET m == item.items[c.member] IN
    CASE c.name = "kind" -> {MsgExpectImpl}
      [] c.name = "generics" -> {check_impl_generics(item.generics).msg}
      [] c.name = "self_ty" -> {check_module_usage(item.self_ty).msg}
      [] c.name = "trait" -> {MsgExpectCall}
      [] c.name = "trait_name" -> {MsgExpectedCall}
      [] c.name = "is_method" -> {MsgOnlyMethod}
      [] c.name = "has_origin" -> {MsgNoOrigin}
      [] c.name = "origin" -> {check_dispatchable_first_arg(m.sig.inputs[1]).msg}
      [] c.name = "return_type" ->
            IF m.sig.output = None THEN {MsgReturnType} ELSE {MsgExpectedResult}
      [] c.name = "weight_parse" -> {MsgExpectedEq, MsgExpectedExpr}
      [] c.name = "weight_count" ->
            IF Len(WeightMarkers(m.attrs)) = 0 THEN {MsgRequireWeight}
            ELSE {MsgTooManyWeight}
      [] c.name = "compact_parse" -> {MsgUnexpectedToken}
      [] c.name = "compact_count" -> {MsgArgTooManyAttrs}
      [] c.name = "arg_ident" -> {MsgArgIdent}

\* The positions in the order cs of the checks the fragment fails.
FailedChecks(item, cs) == {j \in 1..Len(cs) : Fails(item, cs[j])}

\* The earliest of a non-empty set of positions.
Earliest(F) == CHOOSE j \in F : \A l \in F : j <= l

\* C10: CallDef::try_from returns a CallDef exactly when no check fails, and
\* otherwise the single diagnostic of the earliest failing check in the order
\* node kind, generics, self type, trait presence, trait name, then member by
\* member: method, origin present, origin predicate, return type, weight
\* extraction, weight cardinality, then parameter by parameter: compact
\* extraction, compact cardinality, identifier pattern.
C10_FailFast ==
    CallDone =>
        \A cs \in {CheckOrder(input)} :
            \A F \in {FailedChecks(input, cs)} :
                /\ result.ok <=> F = {}
                /\ F # {} => result.msg \in Diagnostics(input, cs[Earliest(F)])

\* A method that fails the origin predicate, has no return type and no weight
\* marker, followed by a constant: rejected for the origin.
C10_Witness ==
    /\ CallDone /\ HeaderAccepted(input)
    /\ Len(input.items) = 2
    /\ input.items[1].kind = "Method"
    /\ \E cs \in {CheckOrder(input)} :
          \E F \in {FailedChecks(input, cs)} :
              /\ Cardinality(F) >= 4
              /\ cs[Earliest(F)].name = "origin"
    /\ result.msg = MsgOrigin

====
